---- MODULE Spec2Model ----
(***************************************************************************)
(* Model of apollo::prediction::Obstacle                                   *)
(* (modules/prediction/container/obstacles/obstacle.cc).                   *)
(*                                                                         *)
(* An Obstacle keeps an id, a type, a history of Features (most recent     *)
(* first) and a map of per-lane Kalman filters.  Every accessor but        *)
(* kf_lane_tracker, and Insert, take the class-wide (static) mutex_.  The   *)
(* destructor resets the members and takes no lock.                        *)
(*                                                                         *)
(* Numbers: timestamps, positions, velocities and theta are doubles in the *)
(* code and small integers here.  Accelerations are kept in thousandths    *)
(* (milli m/s^2) because the damping factor is a fraction.  An optional    *)
(* protobuf field is a record [has, val]; val is the protobuf default (0)  *)
(* when the field is not set.                                              *)
(***************************************************************************)
EXTENDS Integers, Sequences, FiniteSets, TLC

VARIABLES
    id_,                  \* [Objects -> Int]        Obstacle::id_
    type_,                \* [Objects -> STRING]     Obstacle::type_
    feature_history_,     \* [Objects -> Seq(Feature)], front = index 1
    kf_lane_tracker_map_, \* [Objects -> SUBSET LaneIds], the keys of the map
    alive,                \* [Objects -> BOOLEAN]: constructed, not destroyed
    FLAGS_min_acc,        \* gflag, m/s^2
    FLAGS_max_acc,        \* gflag, m/s^2
    mutex_,               \* the static std::mutex: its holder, or NoThread
    pc,                   \* [Threads -> location in the public operation]
    call,                 \* [Threads -> the thread's current/last call]
    aborted,              \* a CHECK failed: the process is gone
    run                   \* length of the run of Insert calls made since
                          \* the object was constructed when these are the
                          \* only calls made and each had an id, a type and
                          \* a larger timestamp; else -1

vars == <<id_, type_, feature_history_, kf_lane_tracker_map_, alive,
          FLAGS_min_acc, FLAGS_max_acc, mutex_, pc, call, aborted, run>>

-----------------------------------------------------------------------------
(* Bounds and input sets *)

MaxRun == 2

Objects == {"A", "B"}
Threads == {"t1", "t2"}
NoThread == "none"
MainThread == "t1"
MainObject == "A"
LaneIds == {"lane1"}

None == [has |-> FALSE, val |-> 0]
Some(v) == [has |-> TRUE, val |-> v]

NoType == [has |-> FALSE, val |-> "UNKNOWN"]
SomeType(v) == [has |-> TRUE, val |-> v]

NoPoint == [has |-> FALSE, x |-> None, y |-> None, z |-> None]
Point(px, py, pz) == [has |-> TRUE, x |-> px, y |-> py, z |-> pz]

IdInputs == {None, Some(-2), Some(1), Some(2)}
TypeInputs == {NoType, SomeType("VEHICLE"), SomeType("PEDESTRIAN")}
DetTimestampInputs == {None, Some(0), Some(2)}
TimestampInputs == {1, 3}
\* (position, velocity, theta) of a detection
KinematicInputs ==
    { <<NoPoint, NoPoint, None>>,
      <<Point(None, Some(5), None), Point(Some(2), None, None), Some(1)>>,
      <<Point(Some(1), Some(2), Some(3)), Point(Some(3), Some(0), Some(0)),
        Some(-1)>> }
IndexInputs == {0, 1}
\* (FLAGS_min_acc, FLAGS_max_acc), min <= max
AccFlagInputs == { <<-4, 2>>, <<1, 2>> }

PerceptionObstacles ==
    { [id |-> i, type |-> ty, timestamp |-> dts, position |-> k[1],
       velocity |-> k[2], theta |-> k[3]] :
        i \in IdInputs, ty \in TypeInputs, dts \in DetTimestampInputs,
        k \in KinematicInputs }

NoPerceptionObstacle ==
    [id |-> None, type |-> NoType, timestamp |-> None, position |-> NoPoint,
     velocity |-> NoPoint, theta |-> None]

-----------------------------------------------------------------------------
(* Feature: a default-constructed message, "Feature feature;" *)

Zero3 == [x |-> 0, y |-> 0, z |-> 0]

NewFeature ==
    [has_id |-> FALSE, id |-> 0, timestamp |-> 0, position |-> Zero3,
     velocity |-> Zero3, speed |-> 0, acceleration |-> Zero3, acc |-> 0,
     theta |-> 0]

-----------------------------------------------------------------------------
(* Arithmetic helpers *)

Abs(v) == IF v < 0 THEN -v ELSE v

\* floor of the square root of n, known to lie in lo..hi (bisection)
RECURSIVE ISqrtIn(_, _, _)
ISqrtIn(n, lo, hi) ==
    IF lo >= hi
    THEN lo
    ELSE LET mid == (lo + hi + 1) \div 2
         IN  IF mid * mid <= n
             THEN ISqrtIn(n, mid, hi)
             ELSE ISqrtIn(n, lo, mid - 1)

\* floor of the square root
ISqrt(n) == ISqrtIn(n, 0, IF n > 46340 THEN 46340 ELSE n)

\* std::hypot(std::hypot(a, b), c) on integers: the square root of the sum
\* of the squares, rounded down once, at the end
Hypot(a, b, c) == ISqrt(a * a + b * b + c * c)

\* Damp(x, 0.001) = 1 / (1 + exp(1 / (|x| + 0.001))) for an integer x, rounded
\* to the nearest thousandth.  The factor rises with |x| from 0 towards 0.5
\* and never reaches it; each pair <<x0, d>> says that the rounded factor is
\* d from |x| = x0 up to the next pair.
DampSteps ==
    << <<0, 0>>, <<1, 269>>, <<2, 378>>, <<3, 417>>, <<4, 438>>, <<5, 450>>,
       <<6, 458>>, <<7, 464>>, <<8, 469>>, <<9, 472>>, <<10, 475>>,
       <<11, 477>>, <<12, 479>>, <<13, 481>>, <<14, 482>>, <<15, 483>>,
       <<16, 484>>, <<17, 485>>, <<18, 486>>, <<19, 487>>, <<20, 488>>,
       <<22, 489>>, <<24, 490>>, <<27, 491>>, <<30, 492>>, <<34, 493>>,
       <<39, 494>>, <<46, 495>>, <<56, 496>>, <<72, 497>>, <<100, 498>>,
       <<167, 499>>, <<500, 500>> >>

Damp(v) ==
    LET k == CHOOSE j \in 1..Len(DampSteps) :
                /\ DampSteps[j][1] <= Abs(v)
                /\ j < Len(DampSteps) => Abs(v) < DampSteps[j + 1][1]
    IN  DampSteps[k][2]

\* apollo::common::math::DoubleCompare(a, b): 1, 0 or -1 (tolerance far below
\* the integer grid used here)
DoubleCompare(a, b) == IF a > b THEN 1 ELSE IF a < b THEN -1 ELSE 0

\* apollo::common::math::Clamp
Clamp(v, lo, hi) == IF v < lo THEN lo ELSE IF v > hi THEN hi ELSE v

-----------------------------------------------------------------------------
(* Insert's helpers.  Each is a function of the fields it reads and returns *)
(* the fields it writes.                                                    *)

\* SetId: err is ErrorCode::PREDICTION_ERROR; id_ is the member afterwards
SetId(cur_id, po, f) ==
    IF ~po.id.has
    THEN [err |-> TRUE, id_ |-> cur_id, feature |-> f]
    ELSE IF cur_id < 0
    THEN [err |-> FALSE, id_ |-> po.id.val, feature |-> f]
    ELSE IF cur_id # po.id.val
    THEN [err |-> TRUE, id_ |-> cur_id, feature |-> f]
    ELSE [err |-> FALSE, id_ |-> cur_id,
          feature |-> [f EXCEPT !.has_id = TRUE, !.id = po.id.val]]

\* a type that, once set, is never overwritten
SetTypeSticky(cur_type, po) ==
    IF po.type.has
    THEN [err |-> FALSE,
          type_ |-> IF cur_type = "UNKNOWN_MOVABLE" THEN po.type.val
                    ELSE cur_type]
    ELSE [err |-> TRUE, type_ |-> cur_type]

SetType(cur_type, po) ==
    IF po.type.has
    THEN [err |-> FALSE, type_ |-> po.type.val]
    ELSE [err |-> TRUE, type_ |-> cur_type]

\* the detection's timestamp taken whenever it is set, positive or not
SetTimestampWhenPresent(po, timestamp_in, f) ==
    [f EXCEPT !.timestamp = IF po.timestamp.has THEN po.timestamp.val
                            ELSE timestamp_in]

SetTimestamp(po, timestamp_in, f) ==
    LET ts == IF po.timestamp.has /\ po.timestamp.val > 0
              THEN po.timestamp.val
              ELSE timestamp_in
    IN  [f EXCEPT !.timestamp = ts]

\* all-or-nothing: the position is taken only when x, y and z are all set
SetPositionAllOrNothing(po, f) ==
    LET p == po.position
        all == p.has /\ p.x.has /\ p.y.has /\ p.z.has
    IN  [f EXCEPT !.position =
            IF all THEN [x |-> p.x.val, y |-> p.y.val, z |-> p.z.val]
            ELSE Zero3]

SetPosition(po, f) ==
    LET x == IF po.position.has /\ po.position.x.has
             THEN po.position.x.val ELSE 0
        y == IF po.position.has /\ po.position.y.has
             THEN po.position.y.val ELSE 0
        z == IF po.position.has /\ po.position.z.has
             THEN po.position.z.val ELSE 0
    IN  [f EXCEPT !.position = [x |-> x, y |-> y, z |-> z]]

\* velocity_heading (atan2) is not modelled
SetVelocity(po, f) ==
    LET velocity_x == IF po.velocity.has /\ po.velocity.x.has
                      THEN po.velocity.x.val ELSE 0
        velocity_y == IF po.velocity.has /\ po.velocity.y.has
                      THEN po.velocity.y.val ELSE 0
        velocity_z == IF po.velocity.has /\ po.velocity.z.has
                      THEN po.velocity.z.val ELSE 0
    IN  [f EXCEPT !.velocity = [x |-> velocity_x, y |-> velocity_y,
                                z |-> velocity_z],
                  !.speed = Hypot(velocity_x, velocity_y, velocity_z)]

\* the velocity written where the acceleration belongs
SetAccelerationFromVelocity(history, f, min_acc, max_acc) ==
    LET a == [x |-> f.velocity.x * 1000, y |-> f.velocity.y * 1000,
              z |-> f.velocity.z * 1000]
    IN  [f EXCEPT !.acceleration = a,
                  !.acc = Hypot(a.x, a.y, a.z)]

\* no test for an empty history: the previous sample is taken to be at rest
\* at time 0
SetAccelerationWithoutSizeTest(history, f, min_acc, max_acc) ==
    LET prev == IF Len(history) > 0 THEN history[1] ELSE NewFeature
        computed == DoubleCompare(f.timestamp, prev.timestamp) = 1
        dt == f.timestamp - prev.timestamp
        Axis(curr, before) ==
            IF computed
            THEN Clamp(((((curr - before) * 1000) \div dt) * Damp(curr))
                          \div 1000,
                       min_acc * 1000, max_acc * 1000)
            ELSE 0
        acc_x == Axis(f.velocity.x, prev.velocity.x)
        acc_y == Axis(f.velocity.y, prev.velocity.y)
        acc_z == Axis(f.velocity.z, prev.velocity.z)
    IN  [f EXCEPT !.acceleration = [x |-> acc_x, y |-> acc_y, z |-> acc_z],
                  !.acc = Hypot(acc_x, acc_y, acc_z)]

\* accelerations in thousandths of m/s^2
SetAcceleration(history, f, min_acc, max_acc) ==
    LET computed == Len(history) > 0
                    /\ DoubleCompare(f.timestamp, history[1].timestamp) = 1
        dt == f.timestamp - history[1].timestamp
        Axis(curr, prev) ==
            IF computed
            THEN Clamp(((((curr - prev) * 1000) \div dt) * Damp(curr))
                          \div 1000,
                       min_acc * 1000, max_acc * 1000)
            ELSE 0
        acc_x == Axis(f.velocity.x, history[1].velocity.x)
        acc_y == Axis(f.velocity.y, history[1].velocity.y)
        acc_z == Axis(f.velocity.z, history[1].velocity.z)
    IN  [f EXCEPT !.acceleration = [x |-> acc_x, y |-> acc_y, z |-> acc_z],
                  !.acc = Hypot(acc_x, acc_y, acc_z)]

SetTheta(po, f) ==
    [f EXCEPT !.theta = IF po.theta.has THEN po.theta.val ELSE 0]

\* Insert's body under the lock: the members afterwards, the local Feature
\* as it stands on return, and which return was taken.  No statement of
\* Insert stores the Feature into feature_history_.
Insert(o, po, timestamp_in) ==
    LET history == feature_history_[o]
        same(status, f) ==
            [status |-> status, id_ |-> id_[o], type_ |-> type_[o],
             feature_history_ |-> history, feature |-> f]
    IN  IF Len(history) > 0 /\ timestamp_in <= history[1].timestamp
        THEN same("OLDER_FRAME", NewFeature)
        ELSE
        LET r1 == SetId(id_[o], po, NewFeature)
        IN  IF r1.err
            THEN [same("ID_ERROR", r1.feature) EXCEPT !.id_ = r1.id_]
            ELSE
            LET r2 == SetType(type_[o], po)
            IN  IF r2.err
                THEN [same("TYPE_ERROR", r1.feature) EXCEPT
                          !.id_ = r1.id_, !.type_ = r2.type_]
                ELSE
                LET f1 == SetTimestamp(po, timestamp_in, r1.feature)
                    f2 == SetPosition(po, f1)
                    f3 == SetVelocity(po, f2)
                    f4 == SetAcceleration(history, f3, FLAGS_min_acc,
                                          FLAGS_max_acc)
                    f5 == SetTheta(po, f4)
                IN  [status |-> "OK", id_ |-> r1.id_, type_ |-> r2.type_,
                     feature_history_ |-> history, feature |-> f5]

-----------------------------------------------------------------------------
(* Constructor and destructor: the members as each leaves them *)

\* Obstacle::Obstacle()
Obstacle ==
    [id_ |-> -1, type_ |-> "UNKNOWN_MOVABLE", feature_history_ |-> << >>,
     kf_lane_tracker_map_ |-> {}]

\* Obstacle::~Obstacle(): no lock_guard, the members are reset as they are
ObstacleDestructor ==
    [id_ |-> -1, type_ |-> "UNKNOWN_UNMOVABLE", feature_history_ |-> << >>,
     kf_lane_tracker_map_ |-> {}]

-----------------------------------------------------------------------------
(* Accessors: status "FATAL" is a failed CHECK *)

id(o) == id_[o]

timestamp(o) ==
    IF Len(feature_history_[o]) > 0
    THEN feature_history_[o][1].timestamp
    ELSE 0

history_size(o) == Len(feature_history_[o])

\* CHECK(i <= size): one past the end is let through
featureOffByOne(o, i) ==
    IF i <= Len(feature_history_[o])
    THEN [status |-> "OK",
          feature |-> IF i < Len(feature_history_[o])
                      THEN feature_history_[o][i + 1] ELSE NewFeature]
    ELSE [status |-> "FATAL", feature |-> NewFeature]

feature(o, i) ==
    IF i < Len(feature_history_[o])
    THEN [status |-> "OK", feature |-> feature_history_[o][i + 1]]
    ELSE [status |-> "FATAL", feature |-> NewFeature]

mutable_feature(o, i) ==
    IF i < Len(feature_history_[o])
    THEN [status |-> "OK", feature |-> feature_history_[o][i + 1]]
    ELSE [status |-> "FATAL", feature |-> NewFeature]

latest_feature(o) ==
    IF Len(feature_history_[o]) > 0
    THEN [status |-> "OK", feature |-> feature_history_[o][1]]
    ELSE [status |-> "FATAL", feature |-> NewFeature]

mutable_latest_feature(o) ==
    IF Len(feature_history_[o]) > 0
    THEN [status |-> "OK", feature |-> feature_history_[o][1]]
    ELSE [status |-> "FATAL", feature |-> NewFeature]

\* no CHECK before map[lane_id]: operator[] creates the missing entry
kf_lane_trackerUnchecked(o, lane_id) ==
    [status |-> "OK", map |-> kf_lane_tracker_map_[o] \cup {lane_id}]

\* the map is only read after the CHECK found the key
kf_lane_tracker(o, lane_id) ==
    IF lane_id \in kf_lane_tracker_map_[o]
    THEN [status |-> "OK", map |-> kf_lane_tracker_map_[o]]
    ELSE [status |-> "FATAL", map |-> kf_lane_tracker_map_[o]]

-----------------------------------------------------------------------------
(* State after construction *)

NoCall ==
    [op |-> "none", obj |-> MainObject, po |-> NoPerceptionObstacle,
     timestamp |-> 0, i |-> 0, lane_id |-> "", status |-> "none", val |-> 0,
     feature |-> NewFeature]

\* Obstacle::Obstacle() for every object; the gflags are set once
Init ==
    /\ id_ = [o \in Objects |-> -1]
    /\ type_ = [o \in Objects |-> "UNKNOWN_MOVABLE"]
    /\ feature_history_ = [o \in Objects |-> << >>]
    /\ kf_lane_tracker_map_ = [o \in Objects |-> {}]
    /\ alive = [o \in Objects |-> TRUE]
    /\ \E flags \in AccFlagInputs :
          FLAGS_min_acc = flags[1] /\ FLAGS_max_acc = flags[2]
    /\ mutex_ = NoThread
    /\ pc = [t \in Threads |-> "idle"]
    /\ call = [t \in Threads |-> NoCall]
    /\ aborted = FALSE
    /\ run = 0

unchanged_config == UNCHANGED <<FLAGS_min_acc, FLAGS_max_acc>>
unchanged_object ==
    UNCHANGED <<id_, type_, feature_history_, kf_lane_tracker_map_, alive>>
unchanged_threads == UNCHANGED <<mutex_, pc>>

\* the run of Insert calls after one more Insert(po, timestamp_in)
RunAfterInsert(po, timestamp_in) ==
    IF /\ run >= 0
       /\ run < MaxRun
       /\ po.id.has
       /\ po.type.has
       /\ (~po.timestamp.has \/ po.timestamp.val = timestamp_in)
       /\ run > 0 => /\ call[MainThread].po.id = po.id
                     /\ call[MainThread].timestamp < timestamp_in
    THEN run + 1
    ELSE -1

-----------------------------------------------------------------------------
(* One caller: every public operation runs from lock to unlock in one step *)

CallInsert ==
    /\ ~aborted
    /\ alive[MainObject]
    /\ \E po \in PerceptionObstacles, timestamp_in \in TimestampInputs :
          LET r == Insert(MainObject, po, timestamp_in)
          IN  /\ id_' = [id_ EXCEPT ![MainObject] = r.id_]
              /\ type_' = [type_ EXCEPT ![MainObject] = r.type_]
              /\ feature_history_' =
                    [feature_history_ EXCEPT
                        ![MainObject] = r.feature_history_]
              /\ call' = [call EXCEPT ![MainThread] =
                    [NoCall EXCEPT !.op = "Insert", !.po = po,
                                   !.timestamp = timestamp_in,
                                   !.status = r.status,
                                   !.feature = r.feature]]
              /\ run' = RunAfterInsert(po, timestamp_in)
    /\ UNCHANGED <<kf_lane_tracker_map_, alive, aborted>>
    /\ unchanged_config
    /\ unchanged_threads

\* the accessors that return a number: id, timestamp, history_size
CallValue ==
    /\ ~aborted
    /\ alive[MainObject]
    /\ \E op \in {"id", "timestamp", "history_size"} :
          call' = [call EXCEPT ![MainThread] =
                    [NoCall EXCEPT
                        !.op = op,
                        !.status = "OK",
                        !.val = CASE op = "id" -> id(MainObject)
                                  [] op = "timestamp" -> timestamp(MainObject)
                                  [] OTHER -> history_size(MainObject)]]
    /\ run' = -1
    /\ UNCHANGED aborted
    /\ unchanged_object
    /\ unchanged_config
    /\ unchanged_threads

\* the accessors that return a stored Feature
CallFeature ==
    /\ ~aborted
    /\ alive[MainObject]
    /\ \E op \in {"feature", "mutable_feature", "latest_feature",
                  "mutable_latest_feature"},
          i \in IndexInputs :
          LET r == CASE op = "feature" -> feature(MainObject, i)
                     [] op = "mutable_feature" -> mutable_feature(MainObject, i)
                     [] op = "latest_feature" -> latest_feature(MainObject)
                     [] OTHER -> mutable_latest_feature(MainObject)
          IN  /\ call' = [call EXCEPT ![MainThread] =
                    [NoCall EXCEPT !.op = op, !.i = i, !.status = r.status,
                                   !.feature = r.feature]]
              /\ aborted' = (r.status = "FATAL")
    /\ run' = -1
    /\ unchanged_object
    /\ unchanged_config
    /\ unchanged_threads

CallKfLaneTracker ==
    /\ ~aborted
    /\ alive[MainObject]
    /\ \E lane_id \in LaneIds :
          LET r == kf_lane_tracker(MainObject, lane_id)
          IN  /\ call' = [call EXCEPT ![MainThread] =
                    [NoCall EXCEPT !.op = "kf_lane_tracker",
                                   !.lane_id = lane_id,
                                   !.status = r.status]]
              /\ kf_lane_tracker_map_' =
                    [kf_lane_tracker_map_ EXCEPT ![MainObject] = r.map]
              /\ aborted' = (r.status = "FATAL")
    /\ run' = -1
    /\ UNCHANGED <<id_, type_, feature_history_, alive>>
    /\ unchanged_config
    /\ unchanged_threads

\* the members of object o become those of the record m
SetMembers(o, m) ==
    /\ id_' = [id_ EXCEPT ![o] = m.id_]
    /\ type_' = [type_ EXCEPT ![o] = m.type_]
    /\ feature_history_' = [feature_history_ EXCEPT ![o] = m.feature_history_]
    /\ kf_lane_tracker_map_' =
          [kf_lane_tracker_map_ EXCEPT ![o] = m.kf_lane_tracker_map_]

\* the owner of the object destroys it; no operation is called on an object
\* after its destructor has run
CallDestructor ==
    /\ ~aborted
    /\ alive[MainObject]
    /\ SetMembers(MainObject, ObstacleDestructor)
    /\ alive' = [alive EXCEPT ![MainObject] = FALSE]
    /\ call' = [call EXCEPT ![MainThread] =
          [NoCall EXCEPT !.op = "~Obstacle", !.status = "OK"]]
    /\ run' = -1
    /\ UNCHANGED aborted
    /\ unchanged_config
    /\ unchanged_threads

\* the owner constructs a new object where the destroyed one was
CallConstructor ==
    /\ ~aborted
    /\ ~alive[MainObject]
    /\ SetMembers(MainObject, Obstacle)
    /\ alive' = [alive EXCEPT ![MainObject] = TRUE]
    /\ call' = [call EXCEPT ![MainThread] =
          [NoCall EXCEPT !.op = "Obstacle", !.status = "OK"]]
    /\ run' = 0
    /\ UNCHANGED aborted
    /\ unchanged_config
    /\ unchanged_threads

Next ==
    \/ CallInsert
    \/ CallValue
    \/ CallFeature
    \/ CallKfLaneTracker
    \/ CallDestructor
    \/ CallConstructor

Spec == Init /\ [][Next]_vars

-----------------------------------------------------------------------------
(* One caller that inserts, and destroys and constructs the object, with   *)
(* detections that set and leave out every sub-field of the position and   *)
(* of the velocity, and with detection timestamps that are absent,         *)
(* negative, zero and positive.                                            *)

\* every combination of x, y, z set or not, and the record itself not set
PointInputs ==
    {NoPoint} \cup
    { Point(px, py, pz) :
        px \in {None, Some(1)}, py \in {None, Some(5)},
        pz \in {None, Some(-3)} }

FieldKinematicInputs ==
    { <<p, Point(Some(3), Some(0), Some(0)), None>> : p \in PointInputs }
    \cup
    { <<NoPoint, v, th>> : v \in PointInputs, th \in {None, Some(2)} }

FieldPerceptionObstacles ==
    { [id |-> Some(1), type |-> SomeType("VEHICLE"), timestamp |-> dts,
       position |-> k[1], velocity |-> k[2], theta |-> k[3]] :
        dts \in {None, Some(-1), Some(0), Some(2)},
        k \in FieldKinematicInputs }

CallInsertFields ==
    /\ ~aborted
    /\ alive[MainObject]
    /\ \E po \in FieldPerceptionObstacles, timestamp_in \in TimestampInputs :
          LET r == Insert(MainObject, po, timestamp_in)
          IN  /\ id_' = [id_ EXCEPT ![MainObject] = r.id_]
              /\ type_' = [type_ EXCEPT ![MainObject] = r.type_]
              /\ feature_history_' =
                    [feature_history_ EXCEPT
                        ![MainObject] = r.feature_history_]
              /\ call' = [call EXCEPT ![MainThread] =
                    [NoCall EXCEPT !.op = "Insert", !.po = po,
                                   !.timestamp = timestamp_in,
                                   !.status = r.status,
                                   !.feature = r.feature]]
              /\ run' = RunAfterInsert(po, timestamp_in)
    /\ UNCHANGED <<kf_lane_tracker_map_, alive, aborted>>
    /\ unchanged_config
    /\ unchanged_threads

FieldNext == CallInsertFields \/ CallDestructor \/ CallConstructor

FieldSpec == Init /\ [][FieldNext]_vars

-----------------------------------------------------------------------------
(* Several callers.  A public operation is entered, takes mutex_ (all but  *)
(* kf_lane_tracker construct a std::lock_guard first), runs its body and   *)
(* releases mutex_ when it returns.  The mutex is a static member: one for *)
(* all objects.  The destructor takes no lock: an object is destroyed by   *)
(* its owner when no thread is in, or on its way into, an operation on it, *)
(* and no operation is called on it afterwards.                            *)

PublicOps ==
    {"id", "timestamp", "feature", "mutable_feature", "latest_feature",
     "mutable_latest_feature", "history_size", "kf_lane_tracker", "Insert"}

\* operations whose first statement is std::lock_guard<std::mutex> lock(mutex_)
LockingOps == PublicOps \ {"kf_lane_tracker"}

ThreadPerceptionObstacles ==
    { [NoPerceptionObstacle EXCEPT !.id = Some(1),
                                   !.type = SomeType("VEHICLE")],
      [NoPerceptionObstacle EXCEPT !.id = Some(2)] }

\* the arguments an operation takes; the others stay at their defaults
CallsOf(op) ==
    CASE op = "Insert" ->
            { [NoCall EXCEPT !.op = op, !.obj = o, !.po = po,
                             !.timestamp = 1] :
                o \in Objects, po \in ThreadPerceptionObstacles }
      [] op \in {"feature", "mutable_feature"} ->
            { [NoCall EXCEPT !.op = op, !.obj = o, !.i = 0] : o \in Objects }
      [] op = "kf_lane_tracker" ->
            { [NoCall EXCEPT !.op = op, !.obj = o, !.lane_id = l] :
                o \in Objects, l \in LaneIds }
      [] OTHER ->
            { [NoCall EXCEPT !.op = op, !.obj = o] : o \in Objects }

\* a thread calls a public operation
Enter(t) ==
    /\ ~aborted
    /\ pc[t] = "idle"
    /\ \E op \in PublicOps : \E c \in CallsOf(op) :
          /\ alive[c.obj]
          /\ call' = [call EXCEPT ![t] = c]
          /\ pc' = [pc EXCEPT ![t] = IF op \in LockingOps THEN "lock"
                                     ELSE "body"]
    /\ UNCHANGED <<mutex_, aborted, run>>
    /\ unchanged_object
    /\ unchanged_config

\* a mutex per object: only an operation on the same object keeps t out
LockPerObject(t) ==
    /\ ~aborted
    /\ pc[t] = "lock"
    /\ mutex_ # NoThread => call[mutex_].obj # call[t].obj
    /\ mutex_' = t
    /\ pc' = [pc EXCEPT ![t] = "body"]
    /\ UNCHANGED <<call, aborted, run>>
    /\ unchanged_object
    /\ unchanged_config

\* std::lock_guard's constructor: blocks until the mutex is free
Lock(t) ==
    /\ ~aborted
    /\ pc[t] = "lock"
    /\ mutex_ = NoThread
    /\ mutex_' = t
    /\ pc' = [pc EXCEPT ![t] = "body"]
    /\ UNCHANGED <<call, aborted, run>>
    /\ unchanged_object
    /\ unchanged_config

\* the body of the operation, up to its return statement or failed CHECK
\* (a failed CHECK ends the process inside the body)
Body(t) ==
    /\ ~aborted
    /\ pc[t] = "body"
    /\ LET c == call[t]
           o == c.obj
           ins == Insert(o, c.po, c.timestamp)
           got == CASE c.op = "feature" -> feature(o, c.i)
                    [] c.op = "mutable_feature" -> mutable_feature(o, c.i)
                    [] c.op = "latest_feature" -> latest_feature(o)
                    [] c.op = "mutable_latest_feature" ->
                          mutable_latest_feature(o)
                    [] c.op = "kf_lane_tracker" ->
                          [status |-> kf_lane_tracker(o, c.lane_id).status,
                           feature |-> NewFeature]
                    [] c.op = "Insert" ->
                          [status |-> ins.status, feature |-> ins.feature]
                    [] OTHER -> [status |-> "OK", feature |-> NewFeature]
           val == CASE c.op = "id" -> id(o)
                    [] c.op = "timestamp" -> timestamp(o)
                    [] c.op = "history_size" -> history_size(o)
                    [] OTHER -> 0
       IN  /\ call' = [call EXCEPT ![t] =
                 [c EXCEPT !.status = got.status, !.feature = got.feature,
                           !.val = val]]
           /\ aborted' = (got.status = "FATAL")
           /\ id_' = IF c.op = "Insert"
                     THEN [id_ EXCEPT ![o] = ins.id_] ELSE id_
           /\ type_' = IF c.op = "Insert"
                       THEN [type_ EXCEPT ![o] = ins.type_] ELSE type_
           /\ feature_history_' =
                 IF c.op = "Insert"
                 THEN [feature_history_ EXCEPT ![o] = ins.feature_history_]
                 ELSE feature_history_
           /\ kf_lane_tracker_map_' =
                 IF c.op = "kf_lane_tracker"
                 THEN [kf_lane_tracker_map_ EXCEPT
                          ![o] = kf_lane_tracker(o, c.lane_id).map]
                 ELSE kf_lane_tracker_map_
           /\ pc' = [pc EXCEPT ![t] =
                 IF got.status = "FATAL" THEN "body"
                 ELSE IF c.op \in LockingOps THEN "unlock"
                 ELSE "idle"]
    /\ UNCHANGED <<alive, mutex_, run>>
    /\ unchanged_config

\* std::lock_guard's destructor, on the way out of the operation
Unlock(t) ==
    /\ ~aborted
    /\ pc[t] = "unlock"
    /\ mutex_' = NoThread
    /\ pc' = [pc EXCEPT ![t] = "idle"]
    /\ UNCHANGED <<call, aborted, run>>
    /\ unchanged_object
    /\ unchanged_config

\* the objects that are destroyed and constructed again while the threads
\* run; the others live as long as the process
ShortLivedObjects == {"B"}

\* no thread is in an operation on o, or waiting for the mutex to start one
Unused(o) == \A t \in Threads : pc[t] # "idle" => call[t].obj # o

\* a thread that is in no operation destroys an object nobody is using; call
\* keeps the thread's last public operation
Destruct(t) ==
    /\ ~aborted
    /\ pc[t] = "idle"
    /\ \E o \in ShortLivedObjects :
          /\ alive[o]
          /\ Unused(o)
          /\ SetMembers(o, ObstacleDestructor)
          /\ alive' = [alive EXCEPT ![o] = FALSE]
    /\ UNCHANGED <<mutex_, pc, call, aborted, run>>
    /\ unchanged_config

\* a thread that is in no operation constructs an object where a destroyed
\* one was
Construct(t) ==
    /\ ~aborted
    /\ pc[t] = "idle"
    /\ \E o \in ShortLivedObjects :
          /\ ~alive[o]
          /\ SetMembers(o, Obstacle)
          /\ alive' = [alive EXCEPT ![o] = TRUE]
    /\ UNCHANGED <<mutex_, pc, call, aborted, run>>
    /\ unchanged_config

ThreadsNext ==
    \E t \in Threads :
        \/ Enter(t)
        \/ Lock(t)
        \/ Body(t)
        \/ Unlock(t)
        \/ Destruct(t)
        \/ Construct(t)

ThreadsSpec == Init /\ [][ThreadsNext]_vars

\* Fair scheduling: a thread that can run its body or leave its operation
\* eventually does, and a thread waiting for the mutex gets it if the mutex
\* stays free.  std::mutex promises no more: a waiting thread can be
\* overtaken each time the mutex is released.  A thread need not ever call
\* an operation.
FairThreadsSpec ==
    /\ ThreadsSpec
    /\ \A t \in Threads :
          WF_vars(Lock(t)) /\ WF_vars(Body(t)) /\ WF_vars(Unlock(t))

-----------------------------------------------------------------------------
(* Properties of the single-caller specification Spec *)

\* the call the single caller made last
last == call[MainThread]

Rejections == {"OLDER_FRAME", "ID_ERROR", "TYPE_ERROR"}

\* C1: after n Insert calls on a fresh entity, all with the same id, a type
\* and strictly increasing timestamps, history_size() is n and
\* feature(0).timestamp() is the last timestamp.
C1_MonotonicGrowth ==
    run >= 1 =>
        /\ history_size(MainObject) = run
        /\ feature(MainObject, 0).status = "OK"
        /\ feature(MainObject, 0).feature.timestamp = last.timestamp

\* C2: an Insert that ends in a rejection leaves id, type and history as they
\* were before the call.
C2_RejectionChangesNothing ==
    [][ (call'[MainThread].op = "Insert"
         /\ call'[MainThread].status \in Rejections)
        => /\ id_' = id_
           /\ type_' = type_
           /\ feature_history_' = feature_history_ ]_vars

\* C3: once an Insert has bound the id, no later Insert changes it, and a
\* later Insert with another id is rejected and changes nothing.
C3_IdAssignedOnce ==
    [][ (id_[MainObject] # -1 /\ call'[MainThread].op = "Insert")
        => /\ id_'[MainObject] = id_[MainObject]
           /\ (call'[MainThread].po.id.has
               /\ call'[MainThread].po.id.val # id_[MainObject])
              => /\ call'[MainThread].status \in Rejections
                 /\ type_' = type_
                 /\ feature_history_' = feature_history_ ]_vars

\* C7: a successful Insert leaves the type equal to the detection's type, an
\* Insert without a type does not succeed, and a rejected Insert leaves the
\* type as it was.
C7_TypeFollowsInsert ==
    [][ call'[MainThread].op = "Insert"
        => /\ call'[MainThread].status = "OK"
              => /\ call'[MainThread].po.type.has
                 /\ type_'[MainObject] = call'[MainThread].po.type.val
           /\ ~call'[MainThread].po.type.has
              => call'[MainThread].status \in Rejections
           /\ call'[MainThread].status \in Rejections
              => type_'[MainObject] = type_[MainObject] ]_vars

\* the second Insert of a run succeeded and its type is the entity's type
C7_Witness ==
    /\ run = 2
    /\ last.op = "Insert"
    /\ last.status = "OK"
    /\ last.po.type.val = "PEDESTRIAN"
    /\ type_[MainObject] = "PEDESTRIAN"

AccelerationWithinFlags(f) ==
    \A a \in {f.acceleration.x, f.acceleration.y, f.acceleration.z} :
        FLAGS_min_acc * 1000 <= a /\ a <= FLAGS_max_acc * 1000

\* C8: every feature built by Insert has each acceleration component in
\* [min_acc, max_acc], for any min_acc <= max_acc.
C8_AccelerationWithinAnyFlags ==
    (last.op = "Insert" /\ last.status = "OK")
        => AccelerationWithinFlags(last.feature)

\* C8 as amended: every feature built by Insert has each acceleration
\* component in [min_acc, max_acc], for any min_acc <= 0 <= max_acc.
C8_AccelerationWithinFlagsAroundZero ==
    (last.op = "Insert" /\ last.status = "OK"
     /\ FLAGS_min_acc <= 0 /\ 0 <= FLAGS_max_acc)
        => AccelerationWithinFlags(last.feature)

\* a feature built from a moving detection, under flags around zero
C8_Witness ==
    /\ last.op = "Insert"
    /\ last.status = "OK"
    /\ FLAGS_min_acc <= 0
    /\ 0 <= FLAGS_max_acc
    /\ last.feature.velocity.x = 3
    /\ last.feature.acceleration = Zero3

\* C9: a fresh entity has history_size() 0; feature(i) and mutable_feature(i)
\* fail fatally exactly when i >= history_size(), the latest variants exactly
\* when the history is empty; otherwise they return the feature at that index
\* and change nothing.
C9_FeatureAccessContract ==
    /\ history_size(MainObject) = 0
    /\ [][ call'[MainThread].op \in {"feature", "mutable_feature",
                                     "latest_feature",
                                     "mutable_latest_feature"}
           => LET c == call'[MainThread]
                  i == IF c.op \in {"feature", "mutable_feature"}
                       THEN c.i ELSE 0
              IN  /\ (c.status = "FATAL") <=> (i >= history_size(MainObject))
                  /\ aborted' <=> (c.status = "FATAL")
                  /\ c.status # "FATAL"
                     => c.feature = feature_history_[MainObject][i + 1]
                  /\ id_' = id_
                  /\ type_' = type_
                  /\ feature_history_' = feature_history_
                  /\ kf_lane_tracker_map_' = kf_lane_tracker_map_ ]_vars

\* latest_feature() on an entity without history ended the process
C9_Witness ==
    /\ last.op = "latest_feature"
    /\ last.status = "FATAL"
    /\ history_size(MainObject) = 0
    /\ aborted

\* C10: a feature built by an Insert that passed identity resolution carries
\* the entity's id, on the first bind as on a match.
C10_FeatureCarriesBoundId ==
    (last.op = "Insert" /\ last.status = "OK")
        => /\ last.feature.has_id
           /\ last.feature.id = id(MainObject)

-----------------------------------------------------------------------------
(* Properties of the several-caller specification ThreadsSpec *)

\* C6: every public operation holds the mutex for its whole body, so no two
\* threads are ever inside the bodies of public operations on one entity.
C6_OneThreadInsideAnEntity ==
    \A t \in Threads, u \in Threads :
        (t # u /\ pc[t] = "body" /\ pc[u] = "body")
            => call[t].obj # call[u].obj

\* thread t is between the constructor and the destructor of a lock_guard
HoldsLock(t) == pc[t] \in {"body", "unlock"} /\ call[t].op \in LockingOps

\* C12: the lock is per entity: while a thread is inside a public operation
\* on one entity, a thread calling an operation on another entity gets in
\* without waiting.
C12_LockPerEntity ==
    \A t \in Threads, u \in Threads :
        (t # u /\ HoldsLock(t) /\ pc[u] = "lock"
         /\ call[t].obj # call[u].obj)
            => ENABLED Lock(u)

\* C12 as amended: the lock is one for all entities: at most one thread is
\* inside a locking public operation, whatever the entities, and a thread
\* calling one meanwhile waits until the mutex is released.
C12_OneLockForAllEntities ==
    \A t \in Threads, u \in Threads :
        (t # u /\ HoldsLock(t))
            => /\ ~HoldsLock(u)
               /\ mutex_ = t
               /\ pc[u] = "lock" => ~ENABLED Lock(u)

\* t1 is inside Insert on A while t2 waits to start an operation on B
C12_Witness ==
    /\ pc["t1"] = "body"
    /\ call["t1"].op = "Insert"
    /\ call["t1"].obj = "A"
    /\ mutex_ = "t1"
    /\ pc["t2"] = "lock"
    /\ call["t2"].obj = "B"

-----------------------------------------------------------------------------
(* More properties of the single-caller specification Spec *)

\* C13: kf_lane_tracker(lane_id) fails fatally when lane_id is not a key of
\* the map; otherwise it returns the entry; either way it leaves the keys of
\* the map and the rest of the entity as they were.
C13_LaneTrackerIsPureRead ==
    [][ call'[MainThread].op = "kf_lane_tracker"
        => LET c == call'[MainThread]
           IN  /\ (c.status = "FATAL")
                     <=> (c.lane_id \notin kf_lane_tracker_map_[MainObject])
               /\ aborted' <=> (c.status = "FATAL")
               /\ kf_lane_tracker_map_' = kf_lane_tracker_map_
               /\ id_' = id_
               /\ type_' = type_
               /\ feature_history_' = feature_history_ ]_vars

\* a lookup of a lane that has no tracker ended the process and created
\* no entry
C13_Witness ==
    /\ last.op = "kf_lane_tracker"
    /\ last.lane_id = "lane1"
    /\ last.status = "FATAL"
    /\ aborted
    /\ kf_lane_tracker_map_[MainObject] = {}

-----------------------------------------------------------------------------
(* Properties of the insert-only specification FieldSpec *)

\* the value a Point3D sub-field of a detection stands for
FieldOrZero(point, field) == IF point.has /\ field.has THEN field.val ELSE 0

\* C14: in the feature Insert builds, each of position x, y, z and velocity
\* x, y, z is the detection's value when that sub-field is set and 0 when it
\* is not, independently of the others; theta likewise.
C14_FieldsDefaultIndependently ==
    (last.op = "Insert" /\ last.status = "OK")
        => LET p == last.po.position
               v == last.po.velocity
           IN  /\ last.feature.position =
                     [x |-> FieldOrZero(p, p.x), y |-> FieldOrZero(p, p.y),
                      z |-> FieldOrZero(p, p.z)]
               /\ last.feature.velocity =
                     [x |-> FieldOrZero(v, v.x), y |-> FieldOrZero(v, v.y),
                      z |-> FieldOrZero(v, v.z)]
               /\ last.feature.theta =
                     IF last.po.theta.has THEN last.po.theta.val ELSE 0

\* a detection with only position.y = 5 gave position (0, 5, 0)
C14_Witness ==
    /\ last.op = "Insert"
    /\ last.status = "OK"
    /\ last.po.position = Point(None, Some(5), None)
    /\ last.feature.position = [x |-> 0, y |-> 5, z |-> 0]

\* C15: the timestamp of the feature Insert builds is the detection's when
\* the detection has one and it is > 0, and the caller's timestamp otherwise.
C15_TimestampResolution ==
    (last.op = "Insert" /\ last.status = "OK")
        => last.feature.timestamp =
              IF last.po.timestamp.has /\ last.po.timestamp.val > 0
              THEN last.po.timestamp.val
              ELSE last.timestamp

\* a detection with a negative timestamp got the caller's timestamp
C15_Witness ==
    /\ last.op = "Insert"
    /\ last.status = "OK"
    /\ last.po.timestamp = Some(-1)
    /\ last.timestamp = 3
    /\ last.feature.timestamp = 3

\* the damped, clamped finite difference of section 4.3, in thousandths
DampedAcceleration(curr_v, curr_ts, prev_v, prev_ts) ==
    Clamp(((((curr_v - prev_v) * 1000) \div (curr_ts - prev_ts))
              * Damp(curr_v)) \div 1000,
          FLAGS_min_acc * 1000, FLAGS_max_acc * 1000)

\* C16: the acceleration of the feature Insert builds is (0, 0, 0), with
\* magnitude 0, when the history is empty at the call or the new timestamp
\* is not greater than the front's; otherwise each axis is computed from the
\* new velocity and timestamp and the front feature's alone.
C16_AccelerationRule ==
    [][ (call'[MainThread].op = "Insert"
         /\ call'[MainThread].status = "OK")
        => LET f == call'[MainThread].feature
               h == feature_history_[MainObject]
           IN  IF Len(h) = 0 \/ f.timestamp <= h[1].timestamp
               THEN f.acceleration = Zero3 /\ f.acc = 0
               ELSE f.acceleration =
                      [x |-> DampedAcceleration(f.velocity.x, f.timestamp,
                                h[1].velocity.x, h[1].timestamp),
                       y |-> DampedAcceleration(f.velocity.y, f.timestamp,
                                h[1].velocity.y, h[1].timestamp),
                       z |-> DampedAcceleration(f.velocity.z, f.timestamp,
                                h[1].velocity.z, h[1].timestamp)] ]_vars

\* a moving detection inserted into an empty history got acceleration 0
C16_Witness ==
    /\ last.op = "Insert"
    /\ last.status = "OK"
    /\ history_size(MainObject) = 0
    /\ last.feature.velocity = [x |-> 1, y |-> 5, z |-> -3]
    /\ last.feature.acceleration = Zero3
    /\ last.feature.acc = 0

-----------------------------------------------------------------------------
(* Properties of the fair several-caller specification FairThreadsSpec *)

\* no thread asks for the mutex it holds, and none leaves an operation
\* holding it
NoReentryNoLeak ==
    \A t \in Threads : pc[t] \in {"lock", "idle"} => mutex_ # t

\* C17: no operation locks the mutex its thread holds, the mutex is released
\* on every way out, hence under fair scheduling every started operation
\* completes and the system never deadlocks.
C17_EveryOperationCompletes ==
    /\ []NoReentryNoLeak
    /\ [](~aborted => ENABLED ThreadsNext)
    /\ \A t \in Threads : (pc[t] # "idle") ~> (pc[t] = "idle")

====
